---- MODULE Spec2Model ----
(***************************************************************************)
(* A model of the two puzzle programs of the repository.                   *)
(*                                                                         *)
(*   day1.rs  Calibration::value / value2, u32::from_word,                 *)
(*            Trebuchet::from_stdin / value / value2, main                 *)
(*   day2.rs  Cube / CubeSet / Game ::from_str, ::is_possible,             *)
(*            Game::from_stdin, part_one, main                             *)
(*                                                                         *)
(* Text is modelled as a sequence of one-character strings, so that the    *)
(* scans, finds and splits of the code are computed character by           *)
(* character.  Option<T> is modelled as a sequence of length at most one:  *)
(* None is << >> and Some(x) is << x >>.                                   *)
(***************************************************************************)
EXTENDS Integers, Sequences, FiniteSets, TLC

VARIABLES
    pc,         \* the position of the operation under way
    raw,        \* day1: Calibration.raw of the calibration being scored
    val,        \* day1: the result of Calibration::value
    val2,       \* day1: the result of Calibration::value2
    prog,       \* which program runs: "day1" or "day2"
    stdin,      \* the results of the successive reads of standard input
    loaded,     \* the result of from_stdin
    stdout,     \* the lines printed to standard output
    exit,       \* the exit status of the process
    game,       \* day2: the Game under the feasibility check
    cubes,      \* day2: the capacity triple handed to is_possible
    possible,   \* day2: the result of Game::is_possible
    desc,       \* day2: what the line under parse was written from
    line,       \* day2: the text handed to Game::from_str
    parsed      \* day2: the result of Game::from_str

calVars == << raw, val, val2 >>
runVars == << prog, stdin, loaded, stdout, exit >>
feasVars == << game, cubes, possible >>
parseVars == << desc, line, parsed >>

vars == << pc, calVars, runVars, feasVars, parseVars >>

\* The value of a variable an operation has not produced yet, or that the
\* specification at hand does not use.
Unset == "unset"

None == << >>
Some(x) == << x >>
IsSome(o) == o # None
Unwrap(o) == o[1]

SetMin(S) == CHOOSE x \in S : \A y \in S : x <= y
SetMax(S) == CHOOSE x \in S : \A y \in S : y <= x

\* The variables of the operations a specification does not exercise.
IdleCal == raw = Unset /\ val = Unset /\ val2 = Unset
IdleRun ==
    /\ prog = Unset /\ stdin = Unset /\ loaded = Unset
    /\ stdout = Unset /\ exit = Unset
IdleFeas == game = Unset /\ cubes = Unset /\ possible = Unset
IdleParse == desc = Unset /\ line = Unset /\ parsed = Unset

\* All sequences over S of length at most n.
SeqsUpTo(S, n) == UNION { [1..k -> S] : k \in 0..n }

(***************************************************************************)
(* day1.rs                                                                 *)
(***************************************************************************)

\* The token list of u32::from_word, in the order of the array.
Names ==
    << <<"1">>, <<"2">>, <<"3">>, <<"4">>, <<"5">>, <<"6">>, <<"7">>, <<"8">>, <<"9">>,
       <<"o","n","e">>, <<"t","w","o">>, <<"t","h","r","e","e">>,
       <<"f","o","u","r">>, <<"f","i","v","e">>, <<"s","i","x">>,
       <<"s","e","v","e","n">>, <<"e","i","g","h","t">>, <<"n","i","n","e">> >>

\* The match of u32::from_word: the digit a token stands for.
DigitOfName(name) ==
    CASE name = <<"1">> \/ name = <<"o","n","e">> -> Some(1)
      [] name = <<"2">> \/ name = <<"t","w","o">> -> Some(2)
      [] name = <<"3">> \/ name = <<"t","h","r","e","e">> -> Some(3)
      [] name = <<"4">> \/ name = <<"f","o","u","r">> -> Some(4)
      [] name = <<"5">> \/ name = <<"f","i","v","e">> -> Some(5)
      [] name = <<"6">> \/ name = <<"s","i","x">> -> Some(6)
      [] name = <<"7">> \/ name = <<"s","e","v","e","n">> -> Some(7)
      [] name = <<"8">> \/ name = <<"e","i","g","h","t">> -> Some(8)
      [] name = <<"9">> \/ name = <<"n","i","n","e">> -> Some(9)
      [] OTHER -> None

\* Whether pat occurs in text at the 0-based offset i.
MatchesAt(text, pat, i) ==
    /\ i + Len(pat) <= Len(text)
    /\ SubSeq(text, i + 1, i + Len(pat)) = pat

\* A plausible slip: str::rfind, the offset of the last occurrence.
RFind(text, pat) ==
    LET at == { i \in 0..Len(text) : MatchesAt(text, pat, i) }
    IN  IF at = {} THEN None ELSE Some(SetMax(at))

\* str::find: the 0-based offset of the first occurrence of pat in text.
Find(text, pat) ==
    LET at == { i \in 0..Len(text) : MatchesAt(text, pat, i) }
    IN  IF at = {} THEN None ELSE Some(SetMin(at))

\* Iterator::min_by on (name, idx) pairs compared by idx: the first of the
\* equally minimum elements, None for the empty iterator.
RECURSIVE MinByIdx(_, _)
MinByIdx(pairs, best) ==
    IF pairs = << >> THEN best
    ELSE LET p == Head(pairs)
         IN  MinByIdx(Tail(pairs),
                      IF best = None \/ p[2] < Unwrap(best)[2] THEN Some(p) ELSE best)

\* u32::from_word: the digit of the token whose first occurrence in word
\* starts earliest.
FromWord(word) ==
    LET hits  == [k \in 1..Len(Names) |-> << Names[k], Find(word, Names[k]) >>]
        found == SelectSeq(hits, LAMBDA h : IsSome(h[2]))
        pairs == [k \in 1..Len(found) |-> << found[k][1], Unwrap(found[k][2]) >>]
        least == MinByIdx(pairs, None)
    IN  IF least = None THEN None ELSE DigitOfName(Unwrap(least)[1])

RADIX == 10

\* char::to_digit(10): the value of an ASCII decimal digit, None otherwise.
ToDigit(c) ==
    CASE c = "0" -> Some(0) [] c = "1" -> Some(1) [] c = "2" -> Some(2)
      [] c = "3" -> Some(3) [] c = "4" -> Some(4) [] c = "5" -> Some(5)
      [] c = "6" -> Some(6) [] c = "7" -> Some(7) [] c = "8" -> Some(8)
      [] c = "9" -> Some(9) [] OTHER -> None

\* Iterator::filter_map, given the results of its closure: the values of
\* the Some results, in order.
FilterSome(opts) ==
    LET kept == SelectSeq(opts, IsSome)
    IN  [k \in 1..Len(kept) |-> Unwrap(kept[k])]

\* nums.clone().next()? and nums.rev().next()? combined as in value and value2.
FirstLast(nums) ==
    IF nums = << >> THEN None
    ELSE Some((RADIX * nums[1]) + nums[Len(nums)])

\* A plausible slip: the last digit taken from the front of the iterator.
CalibrationValueFrontOnly(text) ==
    LET nums == FilterSome([k \in 1..Len(text) |-> ToDigit(text[k])])
    IN  IF nums = << >> THEN None ELSE Some((RADIX * nums[1]) + nums[1])

\* Calibration::value
CalibrationValue(text) ==
    LET nums == FilterSome([k \in 1..Len(text) |-> ToDigit(text[k])])
    IN  FirstLast(nums)

\* Calibration::value2: from_word over the suffix at every character offset.
CalibrationValue2(text) ==
    LET suffixes == [k \in 1..Len(text) |-> SubSeq(text, k, Len(text))]
        nums == FilterSome([k \in 1..Len(suffixes) |-> FromWord(suffixes[k])])
    IN  FirstLast(nums)

----
\* Scoring one calibration: the line is drawn from every text over Alphabet
\* of at most MaxLen characters.
MaxLen == 5
Alphabet == {"o", "n", "e", "t", "w", "1", "0"}

\* The lines of tests::calibration_value and tests::trebuchet_value.
TestLinesValue ==
    << <<"1","a","b","c","2">>,
       <<"p","q","r","3","s","t","u","8","v","w","x">>,
       <<"a","1","b","2","c","3","d","4","e","5","f">>,
       <<"t","r","e","b","7","u","c","h","e","t">> >>

\* The lines of tests::calibration_value2 and tests::trebuchet_value2.
TestLinesValue2 ==
    << <<"t","w","o","1","n","i","n","e">>,
       <<"e","i","g","h","t","w","o","t","h","r","e","e">>,
       <<"a","b","c","o","n","e","2","t","h","r","e","e","x","y","z">>,
       <<"x","t","w","o","n","e","3","f","o","u","r">>,
       <<"4","n","i","n","e","e","i","g","h","t","s","e","v","e","n","2">>,
       <<"z","o","n","e","i","g","h","t","2","3","4">>,
       <<"7","p","q","r","s","t","s","i","x","t","e","e","n">> >>

Range(s) == { s[k] : k \in 1..Len(s) }

InitCalibration ==
    /\ pc = "new"
    /\ raw \in SeqsUpTo(Alphabet, MaxLen) \cup Range(TestLinesValue)
                                           \cup Range(TestLinesValue2)
    /\ val = Unset /\ val2 = Unset
    /\ IdleRun /\ IdleFeas /\ IdleParse

Value ==
    /\ pc = "new"
    /\ val' = CalibrationValue(raw)
    /\ pc' = "value"
    /\ UNCHANGED << raw, val2, runVars, feasVars, parseVars >>

Value2 ==
    /\ pc = "value"
    /\ val2' = CalibrationValue2(raw)
    /\ pc' = "done"
    /\ UNCHANGED << raw, val, runVars, feasVars, parseVars >>

NextCalibration == Value \/ Value2

SpecCalibration == InitCalibration /\ [][NextCalibration]_vars

(***************************************************************************)
(* Claims about Calibration, stated for SpecCalibration                     *)
(***************************************************************************)

\* The digit the k-th token of the list stands for: "1".."9", "one".."nine".
TokenDigit(k) == ((k - 1) % 9) + 1

\* The token occurrences of a text: << offset, digit >> for every offset at
\* which one of the tokens starts.  Occurrences may overlap.
Occurrences(text) ==
    UNION { { << i, TokenDigit(k) >> :
                k \in { j \in 1..Len(Names) : MatchesAt(text, Names[j], i) } } :
            i \in 0..Len(text) }

\* C1: Calibration::value2 returns 10*f + l, where f is the digit of the
\* token occurrence with the smallest start offset and l the digit of the
\* occurrence with the largest start offset (overlapping occurrences
\* included), and returns absence when the line holds no occurrence.  The
\* lines of tests::calibration_value2 score 29, 83, 13, 24, 42, 14, 76.
Thm_C1_Value2FirstLastOccurrence ==
    pc = "done" =>
        LET occ == Occurrences(raw)
            offsets == { o[1] : o \in occ }
        IN  /\ occ = {} => val2 = None
            /\ \A f \in occ, l \in occ :
                   (f[1] = SetMin(offsets) /\ l[1] = SetMax(offsets))
                       => val2 = Some(10 * f[2] + l[2])
            /\ \A k \in 1..Len(TestLinesValue2) :
                   raw = TestLinesValue2[k]
                       => val2 = Some(<< 29, 83, 13, 24, 42, 14, 76 >>[k])

\* C1 witness: "twone" holds the overlapping occurrences two (offset 0) and
\* one (offset 2), and value2 has scored it 21.
Wit_C1_OverlapScored ==
    /\ pc = "done"
    /\ raw = <<"t","w","o","n","e">>
    /\ Occurrences(raw) = { << 0, 2 >>, << 2, 1 >> }
    /\ val2 = Some(21)

\* The characters '0'..'9' and the value of each.
AsciiDigits == <<"0","1","2","3","4","5","6","7","8","9">>
AsciiDigitValue(c) == (CHOOSE k \in 1..Len(AsciiDigits) : AsciiDigits[k] = c) - 1

\* C2: Calibration::value returns 10*(first ASCII digit) + (last ASCII
\* digit) for a line with at least one ASCII digit, hence 11*d for a line
\* whose only digit is d, and absence for a line with no ASCII digit,
\* spelled-out digits not being counted.  The lines of
\* tests::calibration_value score 12, 38, 15, 77.
Thm_C2_ValueFirstLastDigit ==
    pc \in {"value", "done"} =>
        LET at == { k \in 1..Len(raw) : raw[k] \in Range(AsciiDigits) }
        IN  /\ IF at = {} THEN val = None
               ELSE /\ val = Some(10 * AsciiDigitValue(raw[SetMin(at)])
                                     + AsciiDigitValue(raw[SetMax(at)]))
                    /\ Cardinality(at) = 1
                           => val = Some(11 * AsciiDigitValue(raw[SetMin(at)]))
            /\ \A k \in 1..Len(TestLinesValue) :
                   raw = TestLinesValue[k] => val = Some(<< 12, 38, 15, 77 >>[k])

\* C2 witness: value has scored a line whose first digit is 1 and last
\* digit is 0, with a spelled-out digit between them, as 10.
Wit_C2_DigitsScored ==
    /\ pc = "value"
    /\ raw = <<"1","o","n","e","0">>
    /\ val = Some(10)

(***************************************************************************)
(* day2.rs                                                                 *)
(***************************************************************************)

\* enum Cube { Red(usize), Green(usize), Blue(usize) }
Red(n) == [color |-> "Red", n |-> n]
Green(n) == [color |-> "Green", n |-> n]
Blue(n) == [color |-> "Blue", n |-> n]

\* struct CubeSet { cubes } and struct Game { id, cube_sets }
CubeSet(cs) == [cubes |-> cs]
Game(id, sets) == [id |-> id, cube_sets |-> sets]

\* Result<T>: Ok(v) or Err(message).
Ok(v) == [ok |-> TRUE, v |-> v]
Err(e) == [ok |-> FALSE, err |-> e]

\* A plausible slip: the comparison written strict.
CubeIsPossibleStrict(self, caps) ==
    IF self.color = "Red" /\ caps[1].color = "Red" THEN self.n < caps[1].n
    ELSE IF self.color = "Green" /\ caps[2].color = "Green" THEN self.n < caps[2].n
    ELSE IF self.color = "Blue" /\ caps[3].color = "Blue" THEN self.n < caps[3].n
    ELSE FALSE

\* Cube::is_possible(&self, (red, green, blue))
CubeIsPossible(self, caps) ==
    IF self.color = "Red" /\ caps[1].color = "Red" THEN self.n <= caps[1].n
    ELSE IF self.color = "Green" /\ caps[2].color = "Green" THEN self.n <= caps[2].n
    ELSE IF self.color = "Blue" /\ caps[3].color = "Blue" THEN self.n <= caps[3].n
    ELSE FALSE

\* CubeSet::is_possible
CubeSetIsPossible(self, caps) ==
    \A k \in 1..Len(self.cubes) : CubeIsPossible(self.cubes[k], caps)

\* Game::is_possible
GameIsPossible(self, caps) ==
    \A k \in 1..Len(self.cube_sets) : CubeSetIsPossible(self.cube_sets[k], caps)

\* The capacity of part_one.
RED == Red(12)
GREEN == Green(13)
BLUE == Blue(14)

\* Iterator::sum over usize values.
RECURSIVE SumSeq(_)
SumSeq(ns) == IF ns = << >> THEN 0 ELSE Head(ns) + SumSeq(Tail(ns))

\* A plausible slip: the filter left out, every id summed.
PartOneUnfiltered(games) == SumSeq([k \in 1..Len(games) |-> games[k].id])

\* part_one
PartOne(games) ==
    LET kept == SelectSeq(games, LAMBDA g : GameIsPossible(g, << RED, GREEN, BLUE >>))
    IN  SumSeq([k \in 1..Len(kept) |-> kept[k].id])

\* Texts of day2.rs and of its input.
RED_TEXT == <<"r","e","d">>
GREEN_TEXT == <<"g","r","e","e","n">>
BLUE_TEXT == <<"b","l","u","e">>
PURPLE_TEXT == <<"p","u","r","p","l","e">>
ONE_PURPLE_TEXT == <<"1"," ","p","u","r","p","l","e">>
OVERFLOW_TEXT == <<"1","8","4","4","6","7","4","4","0","7","3","7","0","9","5","5","1","6","1","6">>
\* The five lines of tests::game_from_str.
TestGameLines ==
    << <<"G","a","m","e"," ","1",":"," ","3"," ","b","l","u","e",","," ","4",
          " ","r","e","d",";"," ","1"," ","r","e","d",","," ","2"," ","g","r",
          "e","e","n",","," ","6"," ","b","l","u","e",";"," ","2"," ","g","r",
          "e","e","n">>,

       <<"G","a","m","e"," ","2",":"," ","1"," ","b","l","u","e",","," ","2",
          " ","g","r","e","e","n",";"," ","3"," ","g","r","e","e","n",","," ",
          "4"," ","b","l","u","e",","," ","1"," ","r","e","d",";"," ","1"," ",
          "g","r","e","e","n",","," ","1"," ","b","l","u","e">>,

       <<"G","a","m","e"," ","3",":"," ","8"," ","g","r","e","e","n",","," ",
          "6"," ","b","l","u","e",","," ","2","0"," ","r","e","d",";"," ","5",
          " ","b","l","u","e",","," ","4"," ","r","e","d",","," ","1","3"," ",
          "g","r","e","e","n",";"," ","5"," ","g","r","e","e","n",","," ","1",
          " ","r","e","d">>,

       <<"G","a","m","e"," ","4",":"," ","1"," ","g","r","e","e","n",","," ",
          "3"," ","r","e","d",","," ","6"," ","b","l","u","e",";"," ","3"," ",
          "g","r","e","e","n",","," ","6"," ","r","e","d",";"," ","3"," ","g",
          "r","e","e","n",","," ","1","5"," ","b","l","u","e",","," ","1","4",
          " ","r","e","d">>,

       <<"G","a","m","e"," ","5",":"," ","6"," ","r","e","d",","," ","1"," ",
          "b","l","u","e",","," ","3"," ","g","r","e","e","n",";"," ","2"," ",
          "b","l","u","e",","," ","1"," ","r","e","d",","," ","2"," ","g","r",
          "e","e","n">> >>

\* Game lines of the runs: draws at the capacity of part_one, one above it,
\* and a cube of an unknown colour.  The ids are powers of two, so that a sum
\* of ids tells which games it counts.
LINE_GAME1 ==
    <<"G","a","m","e"," ","1",":"," ","1","2"," ","r","e","d",","," ","1","3",
       " ","g","r","e","e","n",";"," ","1","4"," ","b","l","u","e">>
LINE_GAME2 ==
    <<"G","a","m","e"," ","2",":"," ","1","3"," ","r","e","d">>
LINE_GAME4 ==
    <<"G","a","m","e"," ","4",":"," ","1"," ","r","e","d",";"," ","1","5"," ",
       "b","l","u","e">>
LINE_GAME8 ==
    <<"G","a","m","e"," ","8",":"," ","3"," ","p","u","r","p","l","e">>
LINE_GAME16 ==
    <<"G","a","m","e"," ","1","6",":"," ","1","4"," ","g","r","e","e","n",",",
       " ","1"," ","b","l","u","e">>

\* str::split with a string pattern: the pieces between the successive
\* non-overlapping occurrences of sep, found from the left; one piece when
\* sep does not occur, an empty last piece when the text ends with sep.
RECURSIVE Split(_, _)
Split(text, sep) ==
    LET idx == Find(text, sep)
    IN  IF idx = None THEN << text >>
        ELSE << SubSeq(text, 1, Unwrap(idx)) >>
                 \o Split(SubSeq(text, Unwrap(idx) + Len(sep) + 1, Len(text)), sep)

\* usize::MAX of a 64-bit target, as decimal digits.
UsizeMaxDigits == << 1,8,4,4,6,7,4,4,0,7,3,7,0,9,5,5,1,6,1,5 >>

RECURSIVE StripZeros(_)
StripZeros(ds) ==
    IF ds # << >> /\ Head(ds) = 0 THEN StripZeros(Tail(ds)) ELSE ds

\* Whether the number written by the digits ds exceeds usize::MAX.
Overflows(ds) ==
    LET d == StripZeros(ds)
    IN  \/ Len(d) > Len(UsizeMaxDigits)
        \/ /\ Len(d) = Len(UsizeMaxDigits)
           /\ \E k \in 1..Len(d) :
                  /\ d[k] > UsizeMaxDigits[k]
                  /\ \A j \in 1..(k - 1) : d[j] = UsizeMaxDigits[j]

RECURSIVE DigitsValue(_, _)
DigitsValue(ds, acc) ==
    IF ds = << >> THEN acc ELSE DigitsValue(Tail(ds), (acc * RADIX) + Head(ds))

\* usize::from_str: an optional leading '+', then one or more ASCII digits;
\* an error for the empty text, a lone sign, a '-', any other character, or
\* a value above usize::MAX.
UsizeFromStr(text) ==
    IF text = << >> THEN Err("ParseIntError")
    ELSE IF text = <<"+">> \/ text = <<"-">> THEN Err("ParseIntError")
    ELSE LET digits == IF Head(text) = "+" THEN Tail(text) ELSE text
             opts == [k \in 1..Len(digits) |-> ToDigit(digits[k])]
         IN  IF \E k \in 1..Len(opts) : opts[k] = None THEN Err("ParseIntError")
             ELSE LET ds == [k \in 1..Len(opts) |-> Unwrap(opts[k])]
                  IN  IF Overflows(ds) THEN Err("ParseIntError")
                      ELSE Ok(DigitsValue(ds, 0))

\* A plausible slip: failed items dropped instead of failing the whole.
CollectSkippingErrors(results) ==
    LET good == SelectSeq(results, LAMBDA r : r.ok)
    IN  Ok([k \in 1..Len(good) |-> good[k].v])

\* collect::<Result<Vec<_>>>(): the first error, or every value in order.
Collect(results) ==
    LET bad == { k \in 1..Len(results) : ~ results[k].ok }
    IN  IF bad # {} THEN results[SetMin(bad)]
        ELSE Ok([k \in 1..Len(results) |-> results[k].v])

\* Cube::from_str
CubeFromStr(cube) ==
    LET split == Split(cube, <<" ">>)
        quantity == UsizeFromStr(split[1])
    IN  IF ~ quantity.ok THEN quantity
        ELSE IF Len(split) < 2 THEN Err("Missing cube color!")
        ELSE CASE split[2] = RED_TEXT -> Ok(Red(quantity.v))
               [] split[2] = GREEN_TEXT -> Ok(Green(quantity.v))
               [] split[2] = BLUE_TEXT -> Ok(Blue(quantity.v))
               [] OTHER -> Err("Unknown cube color!")

\* A plausible slip: the cubes of a cube-set split at "," alone.
CubeSetFromStrSplitAtComma(cube_set) ==
    LET pieces == Split(cube_set, <<",">>)
        res == Collect([k \in 1..Len(pieces) |-> CubeFromStr(pieces[k])])
    IN  IF res.ok THEN Ok(CubeSet(res.v)) ELSE res

\* CubeSet::from_str
CubeSetFromStr(cube_set) ==
    LET pieces == Split(cube_set, <<",", " ">>)
        res == Collect([k \in 1..Len(pieces) |-> CubeFromStr(pieces[k])])
    IN  IF res.ok THEN Ok(CubeSet(res.v)) ELSE res

\* Game::from_str
GameFromStr(text) ==
    LET game_split == Split(text, <<":", " ">>)
        words == Split(game_split[1], <<" ">>)
        id == UsizeFromStr(words[Len(words)])
    IN  IF ~ id.ok THEN id
        ELSE IF Len(game_split) < 2 THEN Err("Missing game revealed cubes!")
        ELSE LET pieces == Split(game_split[2], <<";", " ">>)
                 cube_sets ==
                     Collect([k \in 1..Len(pieces) |-> CubeSetFromStr(pieces[k])])
             IN  IF cube_sets.ok THEN Ok(Game(id.v, cube_sets.v)) ELSE cube_sets

----
\* The feasibility check of one game under one capacity triple.  The game is
\* drawn as at most MaxDraws cube draws with counts up to MaxCount, each draw
\* after the first either joining the current cube-set or opening a new one;
\* the capacity is every triple (Red r, Green g, Blue b) with r, g, b up to
\* MaxCount.
MaxDraws == 2
MaxCount == 1

SmallCubes ==
    { Red(n) : n \in 0..MaxCount } \cup { Green(n) : n \in 0..MaxCount }
                                   \cup { Blue(n) : n \in 0..MaxCount }

\* The cube-sets a sequence of draws makes up: a draw marked fresh, and the
\* first draw, open a new cube-set; any other joins the last one.
RECURSIVE Group(_, _)
Group(draws, sets) ==
    IF draws = << >> THEN sets
    ELSE LET d == Head(draws)
         IN  IF sets = << >> \/ d.fresh
             THEN Group(Tail(draws), Append(sets, CubeSet(<< d.cube >>)))
             ELSE Group(Tail(draws),
                        [sets EXCEPT ![Len(sets)] =
                            CubeSet(Append(sets[Len(sets)].cubes, d.cube))])

\* The checks of tests::cube_is_possible and tests::game_is_possible.
TestChecks ==
    { << Game(0, << CubeSet(<< Red(3) >>) >>), << Red(5), Green(0), Blue(0) >>, TRUE >>,
      << Game(0, << CubeSet(<< Red(6) >>) >>), << Red(5), Green(0), Blue(0) >>, FALSE >>,
      << Game(0, << CubeSet(<< Blue(3), Red(4) >>) >>), << RED, GREEN, BLUE >>, TRUE >> }

InitFeasible ==
    /\ pc = "new"
    /\ \/ /\ \E draws \in SeqsUpTo([cube : SmallCubes, fresh : BOOLEAN], MaxDraws) :
                 game = Game(0, Group(draws, << >>))
          /\ \E r \in 0..MaxCount, g \in 0..MaxCount, b \in 0..MaxCount :
                 cubes = << Red(r), Green(g), Blue(b) >>
       \/ \E tc \in TestChecks : game = tc[1] /\ cubes = tc[2]
    /\ possible = Unset
    /\ IdleCal /\ IdleRun /\ IdleParse

IsPossible ==
    /\ pc = "new"
    /\ possible' = GameIsPossible(game, cubes)
    /\ pc' = "done"
    /\ UNCHANGED << game, cubes, calVars, runVars, parseVars >>

NextFeasible == IsPossible

SpecFeasible == InitFeasible /\ [][NextFeasible]_vars

(***************************************************************************)
(* Claims about feasibility, stated for SpecFeasible                       *)
(***************************************************************************)

\* The capacity a triple (Red r, Green g, Blue b) gives to a colour.
CapacityOf(caps, color) ==
    LET c == CHOOSE c \in Range(caps) : c.color = color IN c.n

\* Every cube of every cube-set of a game.
CubesOf(g) ==
    UNION { Range(g.cube_sets[k].cubes) : k \in 1..Len(g.cube_sets) }

\* C4: under a capacity triple (Red r, Green g, Blue b), Game::is_possible
\* is true iff every cube of every cube-set has a count less than or equal
\* to the capacity of its own colour; the other two capacities play no part
\* and a count equal to the capacity is possible.
Thm_C4_PossibleIffWithinOwnCapacity ==
    pc = "done" =>
        /\ possible = TRUE <=>
               \A c \in CubesOf(game) : c.n <= CapacityOf(cubes, c.color)
        /\ \A tc \in TestChecks :
               (game = tc[1] /\ cubes = tc[2]) => possible = tc[3]

\* C4 witness: a game of two cube-sets whose counts equal the capacities of
\* their own colours and exceed the capacity of another colour has been
\* judged possible.
Wit_C4_BoundaryJudgedPossible ==
    /\ pc = "done"
    /\ game.cube_sets = << CubeSet(<< Red(1) >>), CubeSet(<< Blue(1) >>) >>
    /\ cubes = << Red(1), Green(0), Blue(1) >>
    /\ possible = TRUE

----
\* Parsing one line.  The line is written from a game (an id, and at most
\* MaxDraws cube draws grouped into cube-sets) in the format of the grammar,
\* with at most one departure from it: a token left out or replaced.

\* The decimal numeral of n.
RECURSIVE Decimal(_)
Decimal(n) ==
    IF n < RADIX THEN << AsciiDigits[n + 1] >>
    ELSE Decimal(n \div RADIX) \o << AsciiDigits[(n % RADIX) + 1] >>

ColorName(color) ==
    CASE color = "Red" -> RED_TEXT [] color = "Green" -> GREEN_TEXT
      [] color = "Blue" -> BLUE_TEXT

ParseIds == { 3, 10 }
ParseCubes == { Red(0), Red(20), Green(0), Green(20), Blue(0), Blue(20) }

NoFault == [kind |-> "none", at |-> 0, tok |-> << >>]

\* The departures from the grammar that make a record malformed: the id
\* left out or not a non-negative integer, the revealed cubes left out, a
\* quantity that is no non-negative integer of the usize range, a colour left
\* out or not one of red, green, blue.
ListedFaults(n) ==
    { [kind |-> "id_absent", at |-> 0, tok |-> << >>],
      [kind |-> "cubes_absent", at |-> 0, tok |-> << >>],
      [kind |-> "cubes_empty", at |-> 0, tok |-> << >>] }
    \cup { [kind |-> "id_bad", at |-> 0, tok |-> tk] :
             tk \in { << >>, <<"x">>, <<"-","1">> } }
    \cup { [kind |-> "quantity_bad", at |-> at, tok |-> tk] :
             at \in 1..n,
             tk \in { << >>, <<"x">>, <<"-","3">>, OVERFLOW_TEXT } }
    \cup { [kind |-> "color_absent", at |-> at, tok |-> << >>] : at \in 1..n }
    \cup { [kind |-> "color_bad", at |-> at, tok |-> tk] :
             at \in 1..n, tk \in { << >>, PURPLE_TEXT, <<"R","e","d">> } }

\* Text beyond the grammar that from_str never looks at: a further word
\* after a colour, and whatever follows a second ": ".
UnreadText(n) ==
    { [kind |-> "trailing_word", at |-> at, tok |-> <<"x">>] : at \in 1..n }
    \cup { [kind |-> "second_colon", at |-> 0, tok |-> ONE_PURPLE_TEXT] }

\* The text of the draw at position k.
CubeText(d, k, f) ==
    LET quantity == IF f.kind = "quantity_bad" /\ f.at = k THEN f.tok
                    ELSE Decimal(d.cube.n)
        color == IF f.kind = "color_absent" /\ f.at = k THEN << >>
                 ELSE IF f.kind = "color_bad" /\ f.at = k THEN <<" ">> \o f.tok
                 ELSE <<" ">> \o ColorName(d.cube.color)
        more == IF f.kind = "trailing_word" /\ f.at = k THEN <<" ">> \o f.tok
                ELSE << >>
    IN  quantity \o color \o more

\* The text of the draws from position k on, "; " before a draw that opens a
\* cube-set and ", " before one that joins the current cube-set.
RECURSIVE CubesText(_, _, _)
CubesText(draws, k, f) ==
    IF k > Len(draws) THEN << >>
    ELSE (IF k = 1 THEN << >>
          ELSE IF draws[k].fresh THEN <<";", " ">> ELSE <<",", " ">>)
         \o CubeText(draws[k], k, f) \o CubesText(draws, k + 1, f)

\* The line written from a description.
Render(d) ==
    LET f == d.fault
        id == IF f.kind = "id_absent" THEN << >>
              ELSE IF f.kind = "id_bad" THEN <<" ">> \o f.tok
              ELSE <<" ">> \o Decimal(d.id)
        revealed == IF f.kind = "cubes_absent" THEN << >>
                    ELSE IF f.kind = "cubes_empty" THEN <<":", " ">>
                    ELSE <<":", " ">> \o CubesText(d.draws, 1, f)
        more == IF f.kind = "second_colon" THEN <<":", " ">> \o f.tok ELSE << >>
    IN  <<"G","a","m","e">> \o id \o revealed \o more

Draw(c, fresh) == [cube |-> c, fresh |-> fresh]

\* Lines 1 and 3 of tests::game_from_str, as descriptions.
TestGame1 ==
    [id |-> 1,
     draws |-> << Draw(Blue(3), TRUE), Draw(Red(4), FALSE),
                  Draw(Red(1), TRUE), Draw(Green(2), FALSE), Draw(Blue(6), FALSE),
                  Draw(Green(2), TRUE) >>,
     fault |-> NoFault]
TestGame3 ==
    [id |-> 3,
     draws |-> << Draw(Green(8), TRUE), Draw(Blue(6), FALSE), Draw(Red(20), FALSE),
                  Draw(Blue(5), TRUE), Draw(Red(4), FALSE), Draw(Green(13), FALSE),
                  Draw(Green(5), TRUE), Draw(Red(1), FALSE) >>,
     fault |-> NoFault]

DrawSeqs ==
    { ds \in SeqsUpTo([cube : ParseCubes, fresh : BOOLEAN], MaxDraws) :
        ds # << >> /\ ds[1].fresh }

InitParse ==
    /\ pc = "new"
    /\ \/ \E id \in ParseIds, ds \in DrawSeqs :
              \E f \in { NoFault } \cup ListedFaults(Len(ds)) \cup UnreadText(Len(ds)) :
                  desc = [id |-> id, draws |-> ds, fault |-> f]
       \/ desc \in { TestGame1, TestGame3 }
    /\ line = Render(desc)
    /\ parsed = Unset
    /\ IdleCal /\ IdleRun /\ IdleFeas

FromStr ==
    /\ pc = "new"
    /\ parsed' = GameFromStr(line)
    /\ pc' = "done"
    /\ UNCHANGED << desc, line, calVars, runVars, feasVars >>

NextParse == FromStr

SpecParse == InitParse /\ [][NextParse]_vars

(***************************************************************************)
(* Claims about Game::from_str, stated for SpecParse                       *)
(***************************************************************************)

\* C6: on a line that matches the grammar, Game::from_str succeeds and
\* returns the Game whose id is the written id and whose cube_sets are the
\* written cube-sets in order, each holding its written cubes in order with
\* the written colour and count.
Thm_C6_GrammarLineParsesToWrittenGame ==
    (pc = "done" /\ desc.fault = NoFault)
        => parsed = Ok(Game(desc.id, Group(desc.draws, << >>)))

\* C6 witness: line 1 of tests::game_from_str has been parsed to id 1 and
\* the three cube-sets the test expects.
Wit_C6_TestLineParsed ==
    /\ pc = "done"
    /\ line = TestGameLines[1]
    /\ parsed = Ok(Game(1, << CubeSet(<< Blue(3), Red(4) >>),
                              CubeSet(<< Red(1), Green(2), Blue(6) >>),
                              CubeSet(<< Green(2) >>) >>))

\* C7: Game::from_str returns an error, and no Game, whenever the id is
\* missing or is not a non-negative integer, the revealed cubes are missing,
\* or any one cube of any cube-set has a malformed quantity, a missing colour
\* or a colour other than red, green, blue.
Thm_C7_MalformedRecordIsError ==
    (pc = "done" /\ desc.fault \in ListedFaults(Len(desc.draws)))
        => parsed.ok = FALSE

\* C7 witness: a record whose first cube-set is well formed and whose second
\* holds a cube of an unknown colour has been refused.
Wit_C7_BadCubeRefused ==
    /\ pc = "done"
    /\ Len(desc.draws) = 2 /\ desc.draws[2].fresh
    /\ desc.fault = [kind |-> "color_bad", at |-> 2, tok |-> PURPLE_TEXT]
    /\ parsed = Err("Unknown cube color!")

(***************************************************************************)
(* from_stdin and main, day1.rs and day2.rs                                *)
(***************************************************************************)

\* The closure of take_while: an Ok read goes on iff its line is not empty;
\* a failed read maps to bool::default(), false.
KeepReading(read) == IF read.ok THEN read.v # << >> ELSE FALSE

\* A plausible slip: filter in place of take_while.
RECURSIVE FilterReads(_)
FilterReads(reads) ==
    IF reads = << >> THEN << >>
    ELSE IF KeepReading(Head(reads)) THEN << Head(reads) >> \o FilterReads(Tail(reads))
    ELSE FilterReads(Tail(reads))

\* Iterator::take_while over the reads of stdin.lock().lines().
RECURSIVE TakeWhile(_)
TakeWhile(reads) ==
    IF reads = << >> THEN << >>
    ELSE IF KeepReading(Head(reads)) THEN << Head(reads) >> \o TakeWhile(Tail(reads))
    ELSE << >>

\* The lines of from_stdin: take_while, map_err on each read that got
\* through, collect into Result<Vec<String>>.
ReadLines(reads) ==
    LET taken == TakeWhile(reads)
    IN  Collect([k \in 1..Len(taken) |->
                    IF taken[k].ok THEN taken[k] ELSE Err(taken[k].err)])

\* Trebuchet::from_stdin
TrebuchetFromStdin(reads) ==
    LET lines == ReadLines(reads)
    IN  IF ~ lines.ok THEN lines
        ELSE Ok([calibrations |-> [k \in 1..Len(lines.v) |-> [raw |-> lines.v[k]]]])

\* Game::from_stdin
GameFromStdin(reads) ==
    LET lines == ReadLines(reads)
    IN  IF ~ lines.ok THEN lines
        ELSE Collect([k \in 1..Len(lines.v) |-> GameFromStr(lines.v[k])])

\* A plausible slip: absent values skipped, the rest summed.
RECURSIVE SumOptionSkippingNone(_, _)
SumOptionSkippingNone(opts, acc) ==
    IF opts = << >> THEN Some(acc)
    ELSE IF Head(opts) = None THEN SumOptionSkippingNone(Tail(opts), acc)
    ELSE SumOptionSkippingNone(Tail(opts), acc + Unwrap(Head(opts)))

\* Iterator::sum into Option<u32>: the sum of the values, None at the first
\* None.  (A sum above u32::MAX needs more than 43 million lines and is out
\* of reach of the streams modelled.)
RECURSIVE SumOption(_, _)
SumOption(opts, acc) ==
    IF opts = << >> THEN Some(acc)
    ELSE IF Head(opts) = None THEN None
    ELSE SumOption(Tail(opts), acc + Unwrap(Head(opts)))

\* Trebuchet::value
TrebuchetValue(t) ==
    SumOption([k \in 1..Len(t.calibrations) |->
                  CalibrationValue(t.calibrations[k].raw)], 0)

\* Trebuchet::value2
TrebuchetValue2(t) ==
    SumOption([k \in 1..Len(t.calibrations) |->
                  CalibrationValue2(t.calibrations[k].raw)], 0)

----
\* A run of either program over standard input: at most MaxLines reads, each
\* a line of the program's kind, an empty line or a failed read; and the
\* line lists of the tests.
MaxLines == 3

Day1Lines == { <<"1","a","2">>, <<"7">>, <<"a">>, <<"o","n","e">>, <<"0">> }
Day2Lines == { LINE_GAME1, LINE_GAME2, LINE_GAME4, LINE_GAME8, LINE_GAME16 }

IoError == Err("read failed")

Reads(lines) == { Ok(l) : l \in lines \cup { << >> } } \cup { IoError }

AllOk(lines) == [k \in 1..Len(lines) |-> Ok(lines[k])]

Printed(label, value) == [label |-> label, value |-> value]

InitRun ==
    /\ pc = "start"
    /\ \/ /\ prog = "day1"
          /\ stdin \in SeqsUpTo(Reads(Day1Lines), MaxLines)
                         \cup { AllOk(TestLinesValue), AllOk(TestLinesValue2) }
       \/ /\ prog = "day2"
          /\ stdin \in SeqsUpTo(Reads(Day2Lines), MaxLines)
                         \cup { AllOk(TestGameLines) }
    /\ loaded = Unset
    /\ stdout = << >>
    /\ exit = Unset
    /\ IdleCal /\ IdleFeas /\ IdleParse

\* day1 main: Trebuchet::from_stdin(stdin)?, then the debug print.
Day1Load ==
    /\ pc = "start" /\ prog = "day1"
    /\ loaded' = TrebuchetFromStdin(stdin)
    /\ IF loaded'.ok
       THEN /\ stdout' = Append(stdout, Printed("Trebuchet", loaded'.v))
            /\ pc' = "part_one"
            /\ exit' = exit
       ELSE /\ exit' = 1
            /\ pc' = "exited"
            /\ stdout' = stdout
    /\ UNCHANGED << prog, stdin, calVars, feasVars, parseVars >>

\* A plausible slip: an absent value treated as fatal.
Day1PartOneFatal ==
    /\ pc = "part_one" /\ prog = "day1"
    /\ IF TrebuchetValue(loaded.v) = None
       THEN /\ exit' = 1
            /\ pc' = "exited"
            /\ stdout' = stdout
       ELSE /\ stdout' = Append(stdout, Printed("Part one", TrebuchetValue(loaded.v)))
            /\ pc' = "part_two"
            /\ exit' = exit
    /\ UNCHANGED << prog, stdin, loaded, calVars, feasVars, parseVars >>

\* day1 main: println!("Part one: {:?}", trebuchet.value())
Day1PartOne ==
    /\ pc = "part_one" /\ prog = "day1"
    /\ stdout' = Append(stdout, Printed("Part one", TrebuchetValue(loaded.v)))
    /\ pc' = "part_two"
    /\ UNCHANGED << prog, stdin, loaded, exit, calVars, feasVars, parseVars >>

\* day1 main: println!("Part two: {:?}", trebuchet.value2()), then Ok(())
Day1PartTwo ==
    /\ pc = "part_two" /\ prog = "day1"
    /\ stdout' = Append(stdout, Printed("Part two", TrebuchetValue2(loaded.v)))
    /\ exit' = 0
    /\ pc' = "exited"
    /\ UNCHANGED << prog, stdin, loaded, calVars, feasVars, parseVars >>

\* day2 main: Game::from_stdin(stdin)?
Day2Load ==
    /\ pc = "start" /\ prog = "day2"
    /\ loaded' = GameFromStdin(stdin)
    /\ IF loaded'.ok
       THEN /\ pc' = "part_one"
            /\ exit' = exit
       ELSE /\ exit' = 1
            /\ pc' = "exited"
    /\ UNCHANGED << prog, stdin, stdout, calVars, feasVars, parseVars >>

\* day2 main: println!("Part one: {}", part_one(&games)), then Ok(())
Day2PartOne ==
    /\ pc = "part_one" /\ prog = "day2"
    /\ stdout' = Append(stdout, Printed("Part one", PartOne(loaded.v)))
    /\ exit' = 0
    /\ pc' = "exited"
    /\ UNCHANGED << prog, stdin, loaded, calVars, feasVars, parseVars >>

NextRun == Day1Load \/ Day1PartOne \/ Day1PartTwo \/ Day2Load \/ Day2PartOne

SpecRun == InitRun /\ [][NextRun]_vars

(***************************************************************************)
(* Claims about the runs, stated for SpecRun                               *)
(***************************************************************************)

\* The lines a reader that stops at the first empty line, or at the end of
\* the stream, hands on: those before that point, in order.
LinesBeforeEnd(reads) ==
    LET stops == { k \in 1..Len(reads) : reads[k].ok /\ reads[k].v = << >> }
        n == IF stops = {} THEN Len(reads) ELSE SetMin(stops) - 1
    IN  [k \in 1..n |-> reads[k].v]

\* Whether a read fails before the first empty line or the end of the stream.
FailsBeforeEnd(reads) ==
    \E k \in 1..Len(reads) :
        /\ ~ reads[k].ok
        /\ \A j \in 1..(k - 1) : reads[j].ok /\ reads[j].v # << >>

\* The lines loaded by a day1 run.
LoadedLines == [k \in 1..Len(loaded.v.calibrations) |-> loaded.v.calibrations[k].raw]

\* The line of standard output with a label, as a set (empty if not printed).
PrintedWith(label) == { stdout[k].value : k \in { j \in 1..Len(stdout) : stdout[j].label = label } }

\* C3: Trebuchet::value (resp. value2) is the sum of the per-calibration
\* value (resp. value2) when every calibration has one, and absence when at
\* least one calibration has none, wherever it stands in the list; the test
\* lists sum to 142 and 281.
Thm_C3_SumOrAbsence ==
    (prog = "day1" /\ pc = "exited") =>
        LET v1 == [k \in 1..Len(LoadedLines) |-> CalibrationValue(LoadedLines[k])]
            v2 == [k \in 1..Len(LoadedLines) |-> CalibrationValue2(LoadedLines[k])]
            Total(vs) == IF \E k \in 1..Len(vs) : vs[k] = None THEN None
                         ELSE Some(SumSeq([k \in 1..Len(vs) |-> Unwrap(vs[k])]))
        IN  /\ PrintedWith("Part one") = { Total(v1) }
            /\ PrintedWith("Part two") = { Total(v2) }
            /\ stdin = AllOk(TestLinesValue) => PrintedWith("Part one") = { Some(142) }
            /\ stdin = AllOk(TestLinesValue2) => PrintedWith("Part two") = { Some(281) }

\* C3 witness: a list whose second calibration of three has no value has been
\* scored absent for part one, and 100 (77 + 11 + 12) for part two.
Wit_C3_AbsenceInTheMiddle ==
    /\ prog = "day1" /\ pc = "exited"
    /\ LoadedLines = << <<"7">>, <<"o","n","e">>, <<"1","a","2">> >>
    /\ PrintedWith("Part one") = { None }
    /\ PrintedWith("Part two") = { Some(100) }

\* The capacity of part_one for a colour: red 12, green 13, blue 14.
FixedCapacity(color) ==
    CASE color = "Red" -> 12 [] color = "Green" -> 13 [] color = "Blue" -> 14

\* C5: part_one is the sum of the ids of exactly the games every draw of
\* which is within the fixed capacity of its colour, each such game counting
\* its id once.
Thm_C5_SumOfPossibleIds ==
    (prog = "day2" /\ pc = "exited" /\ exit = 0) =>
        LET within == { k \in 1..Len(loaded.v) :
                          \A c \in CubesOf(loaded.v[k]) : c.n <= FixedCapacity(c.color) }
            Ids[S \in SUBSET (1..Len(loaded.v))] ==
                IF S = {} THEN 0
                ELSE LET k == CHOOSE k \in S : TRUE
                     IN  loaded.v[k].id + Ids[S \ {k}]
        IN  stdout = << Printed("Part one", Ids[within]) >>

\* C5 witness: of three games, the one at the capacity (id 1, twice in the
\* list) counts and the one above it (id 2) does not.
Wit_C5_OnlyPossibleCounted ==
    /\ prog = "day2" /\ pc = "exited"
    /\ stdin = << Ok(LINE_GAME1), Ok(LINE_GAME2), Ok(LINE_GAME1) >>
    /\ stdout = << Printed("Part one", 2) >>

\* C8 (as claimed): when a read fails with an I/O error before the first
\* empty line or the end of the stream, from_stdin returns an error, the run
\* aborts and prints no aggregate.
Claim_C8_ReadFailureIsError ==
    (pc # "start" /\ FailsBeforeEnd(stdin)) =>
        /\ loaded.ok = FALSE
        /\ PrintedWith("Part one") = {}

\* Whether a line holds no ASCII digit.
NoAsciiDigit(text) == \A k \in 1..Len(text) : text[k] \notin Range(AsciiDigits)

\* C9 (as claimed): a calibration line with no digit is fatal for the run,
\* which exits non-zero and prints neither a "Part one" nor a "Part two"
\* result.
Claim_C9_AbsenceIsFatal ==
    (prog = "day1" /\ pc = "exited"
        /\ \E k \in 1..Len(LoadedLines) : NoAsciiDigit(LoadedLines[k]))
        => /\ exit # 0
           /\ PrintedWith("Part one") = {}
           /\ PrintedWith("Part two") = {}

\* C9 (amended): a calibration line with no digit does not abort the run:
\* the "Part one" result is printed as absence (never a partial sum), the
\* "Part two" result is printed after it, and the run exits zero.
Thm_C9_AbsenceIsPrinted ==
    (prog = "day1" /\ pc = "exited"
        /\ \E k \in 1..Len(LoadedLines) : NoAsciiDigit(LoadedLines[k]))
        => /\ exit = 0
           /\ Len(stdout) = 3
           /\ stdout[2] = Printed("Part one", None)
           /\ stdout[3].label = "Part two"

\* C9 witness: a run over a line with digits and a line without has ended.
Wit_C9_RunOverDigitlessLine ==
    /\ prog = "day1" /\ pc = "exited"
    /\ LoadedLines = << <<"7">>, <<"a">> >>
    /\ exit = 0

\* C10: when every read succeeds, from_stdin stops at the first empty line
\* or at the end of the stream; its records are the non-empty lines before
\* that point, each once and in input order, and the printed result is that
\* of those lines alone.
Thm_C10_RecordsAreLinesBeforeEnd ==
    (pc # "start" /\ \A k \in 1..Len(stdin) : stdin[k].ok) =>
        LET lines == LinesBeforeEnd(stdin)
            t == [calibrations |-> [k \in 1..Len(lines) |-> [raw |-> lines[k]]]]
            games == [k \in 1..Len(lines) |-> GameFromStr(lines[k])]
        IN  /\ prog = "day1" =>
                /\ loaded = Ok(t)
                /\ pc = "exited" =>
                       stdout = << Printed("Trebuchet", t),
                                   Printed("Part one", TrebuchetValue(t)),
                                   Printed("Part two", TrebuchetValue2(t)) >>
            /\ prog = "day2" =>
                /\ loaded.ok <=> \A k \in 1..Len(games) : games[k].ok
                /\ loaded.ok => loaded.v = [k \in 1..Len(games) |-> games[k].v]
                /\ (pc = "exited" /\ loaded.ok) =>
                       stdout = << Printed("Part one",
                                           PartOne([k \in 1..Len(games) |-> games[k].v])) >>

\* C10 witness: of the reads "7", empty, "1a2", only the first has become a
\* record, and the run has printed its score.
Wit_C10_StoppedAtEmptyLine ==
    /\ prog = "day1" /\ pc = "exited"
    /\ stdin = << Ok(<<"7">>), Ok(<< >>), Ok(<<"1","a","2">>) >>
    /\ LoadedLines = << <<"7">> >>
    /\ PrintedWith("Part one") = { Some(77) }

====
